---- MODULE Spec2Model ----
(***************************************************************************)
(* A model of cosilico.base: the chart builders of scatter.py              *)
(* (scatterplot, jointplot, clean_jointplot) and of distribution.py        *)
(* (layered_distribution_plot).  A caller holds one table and calls the    *)
(* builders on it; every call either returns a chart (a tree of altair     *)
(* chart objects, modelled as records) or raises.                          *)
(*                                                                         *)
(* Numbers: the table holds Python ints; padding_scalar, opacity and the   *)
(* computed domains and bandwidths are Python floats, modelled as exact    *)
(* rationals <<numerator, denominator>> in lowest terms (IEEE rounding is  *)
(* not modelled).                                                          *)
(***************************************************************************)
EXTENDS Integers, Sequences, FiniteSets, TLC

VARIABLES
    data,     \* the caller's table (a pandas.DataFrame)
    pc,       \* the caller's position: "idle" or "returned"
    call,     \* the arguments of the call in progress / last call
    result,   \* what that call gave: a returned chart or a raised exception
    first,    \* the first call the caller kept, with its result (<< >> if none)
    loaded    \* the table as the caller built it

vars == <<data, pc, call, result, first, loaded>>

(***************************************************************************)
(* Bounds and input sets                                                   *)
(***************************************************************************)
MaxRows == 2

None == "None"

\* the rows a table is built from: int64 columns a and b, string column g
RowKinds ==
    { [a |-> 1, b |-> 2, g |-> "u"], [a |-> 1, b |-> 5, g |-> "v"],
      [a |-> 3, b |-> 2, g |-> "v"], [a |-> 3, b |-> 5, g |-> "u"] }

Columns == <<"a", "b", "g">>

DTypes == [a |-> "int64", b |-> "int64", g |-> "object"]

RECURSIVE SeqsUpTo(_, _)
SeqsUpTo(S, n) ==
    IF n = 0 THEN { << >> }
    ELSE LET shorter == SeqsUpTo(S, n - 1)
         IN  shorter \cup { Append(s, e) : s \in { t \in shorter : Len(t) = n - 1 }, e \in S }

Tables ==
    { [id |-> "data", columns |-> Columns, dtypes |-> DTypes, rows |-> r] :
        r \in SeqsUpTo(RowKinds, MaxRows) }

(***************************************************************************)
(* Python floats as exact rationals                                        *)
(***************************************************************************)
Abs(n) == IF n < 0 THEN -n ELSE n

RECURSIVE GCD(_, _)
GCD(m, n) == IF n = 0 THEN m ELSE GCD(n, m % n)

\* n/d in lowest terms with a positive denominator (d # 0)
Rat(n, d) ==
    LET g == GCD(Abs(n), Abs(d))
        s == IF d < 0 THEN -1 ELSE 1
    IN  << (s * n) \div g, (s * d) \div g >>

R(n) == <<n, 1>>
RAdd(p, q) == Rat(p[1] * q[2] + q[1] * p[2], p[2] * q[2])
RSub(p, q) == Rat(p[1] * q[2] - q[1] * p[2], p[2] * q[2])
RMul(p, q) == Rat(p[1] * q[1], p[2] * q[2])
RLess(p, q) == p[1] * q[2] < q[1] * p[2]

(***************************************************************************)
(* Tables (pandas) and the builtins the builders call on them              *)
(***************************************************************************)
\* data[c]: the column as a sequence of values
Col(d, c) == [i \in 1..Len(d.rows) |-> d.rows[i][c]]

RECURSIVE SeqMax(_)
SeqMax(s) ==
    IF Len(s) = 1 THEN s[1]
    ELSE LET m == SeqMax(Tail(s)) IN IF s[1] >= m THEN s[1] ELSE m

RECURSIVE SeqMin(_)
SeqMin(s) ==
    IF Len(s) = 1 THEN s[1]
    ELSE LET m == SeqMin(Tail(s)) IN IF s[1] <= m THEN s[1] ELSE m

\* the column's type looked at before the column is found empty
ValueRangeTypeFirst(d, c) ==
    IF d.dtypes[c] = "object" THEN [raised |-> "TypeError", value |-> 0]
    ELSE IF Len(d.rows) = 0 THEN [raised |-> "ValueError", value |-> 0]
    ELSE [raised |-> None, value |-> SeqMax(Col(d, c)) - SeqMin(Col(d, c))]

\* what evaluating  max(data[c]) - min(data[c])  does: the builtin max raises
\* ValueError on an empty sequence; strings have a max and a min, and no "-"
ValueRange(d, c) ==
    IF Len(d.rows) = 0 THEN [raised |-> "ValueError", value |-> 0]
    ELSE IF d.dtypes[c] = "object" THEN [raised |-> "TypeError", value |-> 0]
    ELSE [raised |-> None, value |-> SeqMax(Col(d, c)) - SeqMin(Col(d, c))]

\* the operands swapped
TrueDivSwapped(n, m) ==
    IF n = 0 THEN [raised |-> "ZeroDivisionError", value |-> R(0)]
    ELSE [raised |-> None, value |-> Rat(m, n)]

\* x_diff / bandwidth_scalar on Python numbers
TrueDiv(n, m) ==
    IF m = 0 THEN [raised |-> "ZeroDivisionError", value |-> R(0)]
    ELSE [raised |-> None, value |-> Rat(n, m)]

(***************************************************************************)
(* altair objects.  A keyword dictionary (kwargs) is a function on the     *)
(* keys it holds; a chart is a record of its data, mark, encoding and      *)
(* properties; a concatenation holds the list of its sub-charts.           *)
(***************************************************************************)
NoKwargs == [k \in {} |-> None]

\* an f-string shorthand such as f'{x}:Q' is kept as its parts
Shorthand(col, type) == <<col, type>>

\* alt.Chart(data): the chart refers to the table it was given
Chart(d) == [data |-> d]

\* alt.vconcat(top, bottom, **kwargs) and the operator &
VConcat(top, bottom, kwargs) == [vconcat |-> <<top, bottom>>] @@ kwargs

\* alt.hconcat(left, right, **kwargs) and the operator |
HConcat(left, right, kwargs) == [hconcat |-> <<left, right>>] @@ kwargs

\* chart.configure_view(strokeWidth=0): a copy with a top-level config
ConfigureView(chart, stroke) ==
    [config |-> [view |-> [strokeWidth |-> stroke]]] @@ chart

\* the single charts of a (possibly concatenated) chart, left to right
RECURSIVE Leaves(_)
Leaves(chart) ==
    IF "vconcat" \in DOMAIN chart
      THEN Leaves(chart.vconcat[1]) \o Leaves(chart.vconcat[2])
    ELSE IF "hconcat" \in DOMAIN chart
      THEN Leaves(chart.hconcat[1]) \o Leaves(chart.hconcat[2])
    ELSE <<chart>>

\* the point layer of a chart that has one
MainPlot(chart) ==
    LET ls == Leaves(chart)
    IN  ls[CHOOSE i \in DOMAIN ls : ls[i].mark.type \in {"circle", "point"}]

(***************************************************************************)
(* scatter.py                                                              *)
(***************************************************************************)
\* a sign slip: the upper end moved down instead of up
PaddedScaleShifted(d, c, diff, padding_scalar) ==
    [domain |-> << RSub(R(SeqMin(Col(d, c))), RMul(R(diff), padding_scalar)),
                   RSub(R(SeqMax(Col(d, c))), RMul(R(diff), padding_scalar)) >>]

\* lines 123-126 and 238-241: the padded domain of column c
PaddedScale(d, c, diff, padding_scalar) ==
    [domain |-> << RSub(R(SeqMin(Col(d, c))), RMul(R(diff), padding_scalar)),
                   RAdd(R(SeqMax(Col(d, c))), RMul(R(diff), padding_scalar)) >>]

Returned(chart) == [status |-> "returned", exc |-> None, at |-> None, chart |-> <<chart>>]

Raised(exc, at) == [status |-> "raised", exc |-> exc, at |-> at, chart |-> << >>]

scatterplot_mark_kwargs(hue, color, opacity) ==
    [opacity |-> opacity]
      @@ (IF color # None /\ hue = None THEN [color |-> color] ELSE NoKwargs)

scatterplot_encode_kwargs(hue) ==
    IF hue # None THEN [color |-> Shorthand(hue, "N")] ELSE NoKwargs

scatterplot(args, d) ==
    LET mark_kwargs   == scatterplot_mark_kwargs(args.hue, args.color, args.opacity)
        encode_kwargs == scatterplot_encode_kwargs(args.hue)
        chart ==
            Chart(d) @@
            [mark     |-> [type |-> "point"] @@ mark_kwargs,
             encoding |-> [x |-> [shorthand |-> Shorthand(args.x, "Q"),
                                  scale |-> [zero |-> ~args.x_autoscale]],
                           y |-> [shorthand |-> Shorthand(args.y, "Q"),
                                  scale |-> [zero |-> ~args.y_autoscale]]]
                          @@ encode_kwargs]
    IN  Returned(chart)

\* mark_kwargs kept between calls (one dictionary shared by all calls): a
\* call without hue finds the colour the call before it left there
jointplot_mark_kwargs_shared(hue, color) ==
    IF hue # None THEN [color |-> Shorthand(hue, "N")]
    ELSE IF /\ call.fn = "jointplot"
            /\ result.status = "returned"
            /\ "color" \in DOMAIN MainPlot(result.chart[1]).encoding
         THEN [color |-> MainPlot(result.chart[1]).encoding.color]
         ELSE NoKwargs

\* jointplot lines 130-138: the colour keywords of the point layer
jointplot_mark_kwargs(hue, color) ==
    IF hue # None THEN [color |-> Shorthand(hue, "N")] ELSE NoKwargs

\* lines 134-138 and 249-253
Points(d, x, y, xscale, yscale, mark_kwargs) ==
    Chart(d) @@
    [mark     |-> [type |-> "circle"],
     encoding |-> [x |-> [shorthand |-> <<x>>, scale |-> xscale],
                   y |-> [shorthand |-> <<y>>, scale |-> yscale]]
                  @@ mark_kwargs]

\* lines 140-142 and 255-257
EncodeKwargs(hue) ==
    IF hue # None THEN [color |-> Shorthand(hue, "N")] ELSE NoKwargs

HistAxis == [labels |-> FALSE, tickOpacity |-> 0]

\* lines 143-155
TopHist(d, x, xscale, area_kwargs, encode_kwargs, maxbins, hist_height) ==
    Chart(d) @@
    [mark     |-> [type |-> "area"] @@ area_kwargs,
     encoding |-> [x |-> [shorthand |-> Shorthand(x, "Q"),
                          bin |-> [maxbins |-> maxbins, extent |-> xscale.domain],
                          stack |-> None, title |-> "", axis |-> HistAxis],
                   y |-> [shorthand |-> <<"count()">>, stack |-> None, title |-> ""]]
                  @@ encode_kwargs,
     height   |-> hist_height]

\* the bins laid over the raw data range instead of the padded domain
RightHistRawExtent(d, y, yscale, area_kwargs, encode_kwargs, maxbins, hist_height) ==
    Chart(d) @@
    [mark     |-> [type |-> "area"] @@ area_kwargs,
     encoding |-> [y |-> [shorthand |-> Shorthand(y, "Q"),
                          bin |-> [maxbins |-> maxbins,
                                   extent |-> << R(SeqMin(Col(d, y))), R(SeqMax(Col(d, y))) >>],
                          stack |-> None, title |-> "", axis |-> HistAxis],
                   x |-> [shorthand |-> <<"count()">>, stack |-> None, title |-> ""]]
                  @@ encode_kwargs,
     width    |-> hist_height]

\* lines 157-166
RightHist(d, y, yscale, area_kwargs, encode_kwargs, maxbins, hist_height) ==
    Chart(d) @@
    [mark     |-> [type |-> "area"] @@ area_kwargs,
     encoding |-> [y |-> [shorthand |-> Shorthand(y, "Q"),
                          bin |-> [maxbins |-> maxbins, extent |-> yscale.domain],
                          stack |-> None, title |-> "", axis |-> HistAxis],
                   x |-> [shorthand |-> <<"count()">>, stack |-> None, title |-> ""]]
                  @@ encode_kwargs,
     width    |-> hist_height]

\* the concatenations nested the other way round
JointplotComposeFlat(show_x, show_y, top_hist, points, right_hist) ==
    IF show_x /\ show_y THEN HConcat(VConcat(top_hist, points, NoKwargs), right_hist, NoKwargs)
    ELSE IF show_x /\ ~show_y THEN VConcat(top_hist, points, NoKwargs)
    ELSE IF ~show_x /\ show_y THEN HConcat(points, right_hist, NoKwargs)
    ELSE points

\* lines 168-174
JointplotCompose(show_x, show_y, top_hist, points, right_hist) ==
    IF show_x /\ show_y THEN VConcat(top_hist, HConcat(points, right_hist, NoKwargs), NoKwargs)
    ELSE IF show_x /\ ~show_y THEN VConcat(top_hist, points, NoKwargs)
    ELSE IF ~show_x /\ show_y THEN HConcat(points, right_hist, NoKwargs)
    ELSE points

jointplot(args, d) ==
    LET x_diff == ValueRange(d, args.x)
        y_diff == ValueRange(d, args.y)
    IN  IF x_diff.raised # None THEN Raised(x_diff.raised, "x_diff")
        ELSE IF y_diff.raised # None THEN Raised(y_diff.raised, "y_diff")
        ELSE
          LET xscale == PaddedScale(d, args.x, x_diff.value, args.padding_scalar)
              yscale == PaddedScale(d, args.y, y_diff.value, args.padding_scalar)
              area_kwargs == [opacity |-> args.opacity, interpolate |-> "step"]
              mark_kwargs == jointplot_mark_kwargs(args.hue, args.color)
              points == Points(d, args.x, args.y, xscale, yscale, mark_kwargs)
              encode_kwargs == EncodeKwargs(args.hue)
              top_hist == TopHist(d, args.x, xscale, area_kwargs, encode_kwargs,
                                  args.maxbins, args.hist_height)
              right_hist == RightHist(d, args.y, yscale, area_kwargs, encode_kwargs,
                                      args.maxbins, args.hist_height)
          IN  Returned(JointplotCompose(args.show_x, args.show_y,
                                        top_hist, points, right_hist))

\* lines 245-247
clean_mark_kwargs(hue) ==
    IF hue # None THEN [color |-> Shorthand(hue, "N")] ELSE NoKwargs

\* the groupby left out
TransformKwargsUngrouped(hue) == NoKwargs

\* lines 259-261
TransformKwargs(hue) ==
    IF hue # None THEN [groupby |-> <<hue>>] ELSE NoKwargs

\* lines 263-264
line_axis_kwargs == [labels |-> FALSE, tickOpacity |-> 0, domain |-> FALSE, grid |-> FALSE]

\* steps=200 of both transform_density calls
DensitySteps == 200

\* lines 266-286, given the bandwidth x_diff / bandwidth_scalar
TopLine(d, x, xscale, bandwidth, transform_kwargs, encode_kwargs, opacity, line_height) ==
    Chart(d) @@
    [transform |-> << [density |-> x, bandwidth |-> bandwidth, counts |-> TRUE,
                       extent |-> xscale.domain, steps |-> DensitySteps]
                      @@ transform_kwargs >>,
     mark      |-> [type |-> "line", opacity |-> opacity],
     encoding  |-> [x |-> [shorthand |-> Shorthand("value", "Q"), scale |-> xscale,
                           title |-> "", axis |-> line_axis_kwargs],
                    y |-> [shorthand |-> Shorthand("density", "Q"),
                           title |-> "", axis |-> line_axis_kwargs]]
                   @@ encode_kwargs,
     height    |-> line_height]

\* lines 288-309
RightLine(d, y, yscale, bandwidth, transform_kwargs, encode_kwargs, opacity, line_height) ==
    Chart(d) @@
    [transform |-> << [density |-> y, bandwidth |-> bandwidth, counts |-> TRUE,
                       extent |-> yscale.domain, steps |-> DensitySteps]
                      @@ transform_kwargs >>,
     mark      |-> [type |-> "line", opacity |-> opacity],
     encoding  |-> [y |-> [shorthand |-> Shorthand("value", "Q"), scale |-> yscale,
                           title |-> "", axis |-> line_axis_kwargs],
                    x |-> [shorthand |-> Shorthand("density", "Q"),
                           title |-> "", axis |-> line_axis_kwargs],
                    order |-> Shorthand("value", "Q")]
                   @@ encode_kwargs,
     width     |-> line_height]

\* line 268: bandwidth=x_diff / bandwidth_scalar
TopBandwidth(x_diff, y_diff, bandwidth_scalar) == TrueDiv(x_diff, bandwidth_scalar)

\* a copy-and-paste slip: the right line's bandwidth from the x range
RightBandwidthFromX(x_diff, y_diff, bandwidth_scalar) == TrueDiv(x_diff, bandwidth_scalar)

\* line 290: bandwidth=y_diff / bandwidth_scalar
RightBandwidth(x_diff, y_diff, bandwidth_scalar) == TrueDiv(y_diff, bandwidth_scalar)

\* lines 311-320: four ifs, of which exactly one condition holds
CleanCompose(show_x, show_y, top_line, points, right_line, top_spacing, right_spacing) ==
    IF show_x /\ show_y
      THEN VConcat(top_line,
                   HConcat(points, right_line, [spacing |-> right_spacing]),
                   [spacing |-> top_spacing])
    ELSE IF show_x /\ ~show_y THEN VConcat(top_line, points, [spacing |-> top_spacing])
    ELSE IF ~show_x /\ show_y THEN HConcat(points, right_line, [spacing |-> right_spacing])
    ELSE points

\* the flag ignored: the view configured on every chart
ApplyConfigureViewAlways(apply_configure_view, combined) == ConfigureView(combined, 0)

\* lines 322-323
ApplyConfigureView(apply_configure_view, combined) ==
    IF apply_configure_view THEN ConfigureView(combined, 0) ELSE combined

clean_jointplot(args, d) ==
    LET x_diff == ValueRange(d, args.x)
        y_diff == ValueRange(d, args.y)
    IN  IF x_diff.raised # None THEN Raised(x_diff.raised, "x_diff")
        ELSE IF y_diff.raised # None THEN Raised(y_diff.raised, "y_diff")
        ELSE
          LET xscale == PaddedScale(d, args.x, x_diff.value, args.padding_scalar)
              yscale == PaddedScale(d, args.y, y_diff.value, args.padding_scalar)
              mark_kwargs == clean_mark_kwargs(args.hue)
              points == Points(d, args.x, args.y, xscale, yscale, mark_kwargs)
              encode_kwargs == EncodeKwargs(args.hue)
              transform_kwargs == TransformKwargs(args.hue)
              top_bw == TopBandwidth(x_diff.value, y_diff.value, args.bandwidth_scalar)
              right_bw == RightBandwidth(x_diff.value, y_diff.value,
                                         args.bandwidth_scalar)
          IN  IF top_bw.raised # None THEN Raised(top_bw.raised, "top_line")
              ELSE IF right_bw.raised # None THEN Raised(right_bw.raised, "right_line")
              ELSE
                LET top_line == TopLine(d, args.x, xscale, top_bw.value, transform_kwargs,
                                        encode_kwargs, args.opacity, args.line_height)
                    right_line == RightLine(d, args.y, yscale, right_bw.value,
                                            transform_kwargs, encode_kwargs,
                                            args.opacity, args.line_height)
                    combined == CleanCompose(args.show_x, args.show_y, top_line, points,
                                             right_line, args.top_spacing, args.right_spacing)
                IN  Returned(ApplyConfigureView(args.apply_configure_view, combined))

(***************************************************************************)
(* distribution.py                                                         *)
(***************************************************************************)
Range(s) == { s[i] : i \in DOMAIN s }

\* lines 39-55
histogram(args, d) ==
    LET mark_kwargs == [opacity |-> args.opacity]
                         @@ (IF args.color # None THEN [color |-> args.color] ELSE NoKwargs)
        chart ==
          Chart(d) @@
          [mark     |-> [type |-> "bar"] @@ mark_kwargs,
           encoding |-> [x |-> [shorthand |-> Shorthand(args.x, "Q"),
                                bin |-> [maxbins |-> args.maxbins],
                                title |-> args.x,
                                scale |-> [padding |-> args.padding]],
                         y |-> [shorthand |-> <<"count()", "Q">>, title |-> "Count"]]]
    IN  Returned(chart)

\* the bins of alt.Bin(maxbins=100) at line 99, whatever maxbins was passed
LayeredHistogramMaxbins == 100

\* lines 95-105
layered_histogram(args, d) ==
    LET chart ==
          Chart(d) @@
          [mark     |-> [type |-> "area", opacity |-> args.opacity, interpolate |-> "step"],
           encoding |-> [x |-> [shorthand |-> Shorthand(args.x, "Q"),
                                bin |-> [maxbins |-> LayeredHistogramMaxbins],
                                title |-> args.x,
                                scale |-> [padding |-> args.padding]],
                         y |-> [shorthand |-> <<"count()">>, stack |-> args.stack,
                                title |-> "Count"],
                         color |-> Shorthand(args.hue, "N")]]
    IN  Returned(chart)

\* the steps argument dropped for the default
DistributionDensityDefaultSteps(x, bandwidth, extent, steps) ==
    [density |-> x, bandwidth |-> bandwidth, counts |-> TRUE,
     extent |-> extent, steps |-> DensitySteps]

\* lines 152-159: the arguments of chart.transform_density
DistributionDensity(x, bandwidth, extent, steps) ==
    [density |-> x, bandwidth |-> bandwidth, counts |-> TRUE,
     extent |-> extent, steps |-> steps]

\* lines 149-205
distribution_plot(args, d) ==
    LET value_range == ValueRange(d, args.x)
    IN  IF value_range.raised # None THEN Raised(value_range.raised, "value_range")
        ELSE
          LET extent == PaddedScale(d, args.x, value_range.value, args.x_pad_scaler).domain
              mark_kwargs == IF args.orientation = "vertical"
                             THEN [orient |-> "vertical"] ELSE NoKwargs
              mark == IF args.line_only
                      THEN [type |-> "line", opacity |-> args.opacity] @@ mark_kwargs
                      ELSE [type |-> "area", opacity |-> args.opacity,
                            filled |-> args.filled] @@ mark_kwargs
              encoding ==
                IF args.orientation = "horizontal"
                THEN [x |-> [shorthand |-> Shorthand("value", "Q"), title |-> args.x],
                      y |-> [shorthand |-> Shorthand("density", "Q")]]
                ELSE [y |-> [shorthand |-> Shorthand("value", "Q"), title |-> args.x],
                      x |-> [shorthand |-> Shorthand("density", "Q")],
                      order |-> Shorthand("value", "Q")]
              chart ==
                Chart(d) @@
                [transform |-> << DistributionDensity(args.x, args.bandwidth, extent,
                                                      args.steps) >>,
                 mark      |-> mark,
                 encoding  |-> encoding]
          IN  Returned(chart)

\* data.copy(): a new table with the same contents
DataCopy(d) == [d EXCEPT !.id = "copy"]

RECURSIVE MeltRows(_, _)
MeltRows(rows, value_vars) ==
    IF value_vars = << >> THEN << >>
    ELSE [i \in 1..Len(rows) |->
              [variable |-> Head(value_vars), value |-> rows[i][Head(value_vars)]]]
         \o MeltRows(rows, Tail(value_vars))

\* data.melt(value_vars=x): a new table, one row per (variable, value)
Melt(d, value_vars) ==
    [id      |-> "melted",
     columns |-> <<"variable", "value">>,
     dtypes  |-> [variable |-> "object",
                  value |-> IF \A v \in Range(value_vars) : d.dtypes[v] = "int64"
                            THEN "int64" ELSE "object"],
     rows    |-> MeltRows(d.rows, value_vars)]

\* table.columns = names: the table's columns renamed in place, by position
SetColumns(t, names) ==
    LET old(c) == t.columns[CHOOSE i \in DOMAIN names : names[i] = c]
    IN  [id      |-> t.id,
         columns |-> names,
         dtypes  |-> [c \in Range(names) |-> t.dtypes[old(c)]],
         rows    |-> [i \in 1..Len(t.rows) |-> [c \in Range(names) |-> t.rows[i][old(c)]]]]

\* lines 263-264: 'variable' renamed to hue
RenamedColumns(t, hue) ==
    [i \in DOMAIN t.columns |-> IF t.columns[i] = "variable" THEN hue ELSE t.columns[i]]

\* the caller's table after  obj.columns = ...  turned obj into changed:
\* the caller sees the change only if obj is the caller's own table
CallerTableAfter(d, obj, changed) == IF obj.id = d.id THEN changed ELSE d

\* lines 258-266: the table the chart is built on, the column it summarises,
\* the grouping column, and the caller's table afterwards
LayeredTransformed(args, d) ==
    LET copied == DataCopy(d)
    IN  IF args.x.collection
        THEN LET melted == Melt(d, args.x.names)
             IN  IF args.hue # None
                 THEN LET renamed == SetColumns(melted, RenamedColumns(melted, args.hue))
                      IN  [transformed |-> renamed, x |-> "value", hue |-> args.hue,
                           caller |-> CallerTableAfter(d, melted, renamed)]
                 ELSE [transformed |-> melted, x |-> "value", hue |-> "variable",
                       caller |-> d]
        ELSE [transformed |-> copied, x |-> args.x.name, hue |-> args.hue, caller |-> d]

\* lines 268-288
layered_distribution_plot(args, d) ==
    LET t == LayeredTransformed(args, d)
        value_range == ValueRange(t.transformed, t.x)
    IN  IF value_range.raised # None THEN Raised(value_range.raised, "value_range")
        ELSE
          LET extent == PaddedScale(t.transformed, t.x, value_range.value,
                                    args.x_pad_scaler).domain
              chart ==
                Chart(t.transformed) @@
                [transform |-> << [density |-> t.x, bandwidth |-> args.bandwidth,
                                   groupby |-> <<t.hue>>, counts |-> TRUE,
                                   extent |-> extent, steps |-> args.steps] >>,
                 mark      |-> [type |-> "area", opacity |-> args.opacity,
                                filled |-> args.filled],
                 encoding  |-> [x |-> [shorthand |-> Shorthand("value", "Q"), title |-> t.x],
                                y |-> [shorthand |-> Shorthand("density", "Q"),
                                       stack |-> args.stack],
                                color |-> Shorthand(t.hue, "N")]]
          IN  Returned(chart)

(***************************************************************************)
(* The arguments the caller passes                                         *)
(***************************************************************************)
XYPairs == { <<"a", "b">>, <<"g", "b">>, <<"a", "g">> }
Hues == { None, "g" }
Colors == { None, "red" }
\* padding_scalar: -0.2, 0, the default .05 of jointplot, the default .2 of clean_jointplot
PaddingScalars == { Rat(-1, 5), R(0), Rat(1, 20), Rat(1, 5) }
\* hist_height / line_height: the default and a negative size
Heights == { 50, -50 }
BandwidthScalars == { -2, 0, 2, 10 }
DefaultOpacity == Rat(3, 5)
DefaultMaxbins == 30
DefaultTopSpacing == -40
DefaultRightSpacing == 0

ScatterplotArgs ==
    { [fn |-> "scatterplot", x |-> "a", y |-> "b", hue |-> h, color |-> c,
       opacity |-> R(1), x_autoscale |-> xa, y_autoscale |-> TRUE] :
        h \in Hues, c \in Colors, xa \in BOOLEAN }

JointplotArgs ==
    { [fn |-> "jointplot", x |-> xy[1], y |-> xy[2], hue |-> h, color |-> c,
       show_x |-> sx, show_y |-> sy, opacity |-> DefaultOpacity, padding_scalar |-> p,
       maxbins |-> m, hist_height |-> hh] :
        xy \in XYPairs, h \in Hues, c \in Colors, sx \in BOOLEAN, sy \in BOOLEAN,
        p \in PaddingScalars, m \in { DefaultMaxbins, 10 }, hh \in Heights }

CleanJointplotArgs ==
    { [fn |-> "clean_jointplot", x |-> xy[1], y |-> xy[2], hue |-> h,
       show_x |-> sx, show_y |-> sy, opacity |-> DefaultOpacity, padding_scalar |-> p,
       bandwidth_scalar |-> bs, line_height |-> lh, top_spacing |-> DefaultTopSpacing,
       right_spacing |-> DefaultRightSpacing, apply_configure_view |-> acv] :
        xy \in XYPairs, h \in Hues, sx \in BOOLEAN, sy \in BOOLEAN,
        p \in PaddingScalars \ { Rat(1, 20) }, bs \in BandwidthScalars,
        lh \in Heights, acv \in BOOLEAN }

\* steps: the default, and a coarse grid
Steps == { DensitySteps, 5 }

\* x is one column name, or a collection of column names to melt; a single
\* column needs a hue (docstring, distribution.py lines 221-224)
LayeredXs ==
    { [collection |-> FALSE, name |-> "a"], [collection |-> FALSE, name |-> "g"],
      [collection |-> TRUE, names |-> <<"a", "b">>],
      [collection |-> TRUE, names |-> <<"a", "g">>] }

LayeredDistributionArgs ==
    { args \in
        { [fn |-> "layered_distribution_plot", x |-> x, hue |-> h,
           opacity |-> DefaultOpacity, bandwidth |-> Rat(3, 10), steps |-> st,
           stack |-> None, x_pad_scaler |-> p, filled |-> TRUE] :
            x \in LayeredXs, h \in { None, "g", "kind" }, p \in { R(0), Rat(1, 5) },
            st \in Steps } :
        args.x.collection \/ args.hue # None }

DistributionArgs ==
    { [fn |-> "distribution_plot", x |-> x, color |-> None, opacity |-> DefaultOpacity,
       bandwidth |-> Rat(3, 10), filled |-> TRUE, steps |-> st, x_pad_scaler |-> p,
       line_only |-> lo, orientation |-> o] :
        x \in {"a", "g"}, st \in Steps, p \in { R(0), Rat(1, 5) }, lo \in BOOLEAN,
        o \in {"vertical", "horizontal"} }

\* maxbins: the default of histogram and jointplot, the default of
\* layered_histogram, and a smaller number
Maxbins == { DefaultMaxbins, LayeredHistogramMaxbins, 10 }

HistogramArgs ==
    { [fn |-> "histogram", x |-> x, opacity |-> R(1), maxbins |-> m, color |-> c,
       padding |-> 0] :
        x \in {"a", "g"}, m \in Maxbins, c \in Colors }

LayeredHistogramArgs ==
    { [fn |-> "layered_histogram", x |-> x, hue |-> "g", opacity |-> DefaultOpacity,
       maxbins |-> m, stack |-> st, padding |-> 0] :
        x \in {"a", "b"}, m \in Maxbins, st \in {None, "zero"} }

\* the calls of a caller who keeps what the first call returned
KeptScatterplotArgs ==
    { args \in ScatterplotArgs : args.x_autoscale /\ args.color = "red" }

KeptJointplotArgs ==
    { args \in JointplotArgs :
        /\ args.x = "a" /\ args.y = "b" /\ args.show_x /\ args.show_y
        /\ args.padding_scalar = Rat(1, 20) /\ args.hist_height = 50
        /\ args.maxbins = DefaultMaxbins }

KeptCleanJointplotArgs ==
    { args \in CleanJointplotArgs :
        /\ args.x = "a" /\ args.y = "b" /\ args.show_x /\ args.show_y
        /\ args.padding_scalar = Rat(1, 5) /\ args.line_height = 50
        /\ args.bandwidth_scalar = 10 }

KeptLayeredDistributionArgs ==
    { args \in LayeredDistributionArgs :
        /\ args.x_pad_scaler = Rat(1, 5) /\ args.hue # "kind"
        /\ args.steps = DensitySteps
        /\ \/ ~args.x.collection /\ args.x.name = "a"
           \/ args.x.collection /\ args.x.names = <<"a", "b">> }

(***************************************************************************)
(* The caller                                                              *)
(***************************************************************************)
NoCall == [fn |-> None]
NoResult == [status |-> None, exc |-> None, at |-> None, chart |-> << >>]

Init ==
    /\ data \in Tables
    /\ pc = "idle"
    /\ call = NoCall
    /\ result = NoResult
    /\ first = << >>
    /\ loaded = data

CallScatterplot(Args) ==
    /\ pc = "idle"
    /\ \E args \in Args :
         /\ call' = args
         /\ result' = scatterplot(args, data)
    /\ pc' = "returned"
    /\ UNCHANGED <<data, first, loaded>>

CallJointplot(Args) ==
    /\ pc = "idle"
    /\ \E args \in Args :
         /\ call' = args
         /\ result' = jointplot(args, data)
    /\ pc' = "returned"
    /\ UNCHANGED <<data, first, loaded>>

CallCleanJointplot(Args) ==
    /\ pc = "idle"
    /\ \E args \in Args :
         /\ call' = args
         /\ result' = clean_jointplot(args, data)
    /\ pc' = "returned"
    /\ UNCHANGED <<data, first, loaded>>

CallLayeredDistributionPlot(Args) ==
    /\ pc = "idle"
    /\ \E args \in Args :
         /\ call' = args
         /\ result' = layered_distribution_plot(args, data)
         /\ data' = LayeredTransformed(args, data).caller
    /\ pc' = "returned"
    /\ UNCHANGED <<first, loaded>>

CallHistogram(Args) ==
    /\ pc = "idle"
    /\ \E args \in Args :
         /\ call' = args
         /\ result' = histogram(args, data)
    /\ pc' = "returned"
    /\ UNCHANGED <<data, first, loaded>>

CallLayeredHistogram(Args) ==
    /\ pc = "idle"
    /\ \E args \in Args :
         /\ call' = args
         /\ result' = layered_histogram(args, data)
    /\ pc' = "returned"
    /\ UNCHANGED <<data, first, loaded>>

CallDistributionPlot(Args) ==
    /\ pc = "idle"
    /\ \E args \in Args :
         /\ call' = args
         /\ result' = distribution_plot(args, data)
    /\ pc' = "returned"
    /\ UNCHANGED <<data, first, loaded>>

\* the caller drops what the call gave
Discard ==
    /\ pc = "returned"
    /\ pc' = "idle"
    /\ call' = NoCall
    /\ result' = NoResult
    /\ UNCHANGED <<data, first, loaded>>

\* the caller keeps what the call gave (the first such call is remembered)
Keep ==
    /\ pc = "returned"
    /\ pc' = "idle"
    /\ first' = IF first = << >> THEN << [call |-> call, result |-> result] >> ELSE first
    /\ UNCHANGED <<data, call, result, loaded>>

Next ==
    \/ CallScatterplot(ScatterplotArgs)
    \/ CallJointplot(JointplotArgs)
    \/ CallCleanJointplot(CleanJointplotArgs)
    \/ CallLayeredDistributionPlot(LayeredDistributionArgs)
    \/ CallHistogram(HistogramArgs)
    \/ CallLayeredHistogram(LayeredHistogramArgs)
    \/ CallDistributionPlot(DistributionArgs)
    \/ Discard

Spec == Init /\ [][Next]_vars

NextKept ==
    \/ CallScatterplot(KeptScatterplotArgs)
    \/ CallJointplot(KeptJointplotArgs)
    \/ CallCleanJointplot(KeptCleanJointplotArgs)
    \/ CallLayeredDistributionPlot(KeptLayeredDistributionArgs)
    \/ Keep

SpecKept == Init /\ [][NextKept]_vars

(***************************************************************************)
(* What the claims speak of                                                *)
(***************************************************************************)
JointFns == {"jointplot", "clean_jointplot"}

\* a call of jointplot or clean_jointplot has come back (returned or raised)
JointCalled == pc = "returned" /\ call.fn \in JointFns

JointReturned == JointCalled /\ result.status = "returned"

Layout == result.chart[1]

Numeric(c) == data.dtypes[c] = "int64"

MinOf(c) == SeqMin(Col(data, c))
MaxOf(c) == SeqMax(Col(data, c))
RangeOf(c) == MaxOf(c) - MinOf(c)

XDomain == MainPlot(Layout).encoding.x.scale.domain
YDomain == MainPlot(Layout).encoding.y.scale.domain

IsMainPlot(leaf) == leaf.mark.type = "circle"
IsTopMarginal(leaf) == "height" \in DOMAIN leaf
IsRightMarginal(leaf) == "width" \in DOMAIN leaf

\* the interval a marginal is computed over
Extent(leaf, channel) ==
    IF "transform" \in DOMAIN leaf THEN leaf.transform[1].extent
    ELSE leaf.encoding[channel].bin.extent

\* [min - p*range, max + p*range]
Padded(c, p) ==
    << RSub(R(MinOf(c)), RMul(p, R(RangeOf(c)))), RAdd(R(MaxOf(c)), RMul(p, R(RangeOf(c)))) >>

AxisPadded(c, dom, p) ==
    /\ dom = Padded(c, p)
    /\ RSub(dom[2], dom[1]) = RMul(RAdd(R(1), RMul(R(2), p)), R(RangeOf(c)))
    /\ RSub(R(MinOf(c)), dom[1]) = RSub(dom[2], R(MaxOf(c)))

\* C1: whenever jointplot or clean_jointplot returns, each axis whose column
\* has range > 0, padded by p >= 0, has the domain [min - p*range,
\* max + p*range]: of width (1 + 2p) * range and centred on the data.
DomainPaddedAndCentred ==
    JointReturned /\ ~RLess(call.padding_scalar, R(0)) =>
        /\ RangeOf(call.x) > 0 => AxisPadded(call.x, XDomain, call.padding_scalar)
        /\ RangeOf(call.y) > 0 => AxisPadded(call.y, YDomain, call.padding_scalar)

DomainPaddedWitness ==
    /\ JointReturned
    /\ call.fn = "clean_jointplot"
    /\ call.padding_scalar = Rat(1, 5)
    /\ RangeOf(call.x) = 2 /\ RangeOf(call.y) = 3
    /\ XDomain = << Rat(3, 5), Rat(17, 5) >>
    /\ YDomain = << Rat(7, 5), Rat(28, 5) >>

\* the shape of a chart: its concatenations, and what each single chart is
RECURSIVE Shape(_)
Shape(chart) ==
    IF "vconcat" \in DOMAIN chart
      THEN << "vconcat", Len(chart.vconcat), Shape(chart.vconcat[1]), Shape(chart.vconcat[2]) >>
    ELSE IF "hconcat" \in DOMAIN chart
      THEN << "hconcat", Len(chart.hconcat), Shape(chart.hconcat[1]), Shape(chart.hconcat[2]) >>
    ELSE IF IsMainPlot(chart) THEN << "main_plot" >>
    ELSE IF IsTopMarginal(chart) THEN << "top_marginal" >>
    ELSE IF IsRightMarginal(chart) THEN << "right_marginal" >>
    ELSE << "other" >>

ShapeFor(show_x, show_y) ==
    IF show_x /\ show_y
      THEN << "vconcat", 2, << "top_marginal" >>,
              << "hconcat", 2, << "main_plot" >>, << "right_marginal" >> >> >>
    ELSE IF show_x THEN << "vconcat", 2, << "top_marginal" >>, << "main_plot" >> >>
    ELSE IF show_y THEN << "hconcat", 2, << "main_plot" >>, << "right_marginal" >> >>
    ELSE << "main_plot" >>

\* C2: the shape of the chart jointplot and clean_jointplot return depends on
\* show_x and show_y alone: the point layer alone; the top marginal stacked
\* on the point layer; the point layer beside the right marginal; or the top
\* marginal stacked on (the point layer beside the right marginal).
LayoutShapeByFlags ==
    JointReturned => Shape(Layout) = ShapeFor(call.show_x, call.show_y)

LayoutShapeWitness ==
    /\ JointReturned
    /\ call.fn = "jointplot"
    /\ call.show_x /\ call.show_y
    /\ "vconcat" \in DOMAIN Layout
    /\ "hconcat" \in DOMAIN Layout.vconcat[2]
    /\ Len(Leaves(Layout)) = 3

\* C3: every marginal in the returned chart is computed over the domain of
\* the point layer's matching axis: the top one over the x domain and the
\* right one over the y domain (and a density line is drawn on that scale).
MarginalSharesDomain ==
    JointReturned =>
        \A i \in DOMAIN Leaves(Layout) :
            LET leaf == Leaves(Layout)[i]
            IN  /\ IsTopMarginal(leaf) =>
                     /\ Extent(leaf, "x") = XDomain
                     /\ "scale" \in DOMAIN leaf.encoding.x
                            => leaf.encoding.x.scale.domain = XDomain
                /\ IsRightMarginal(leaf) =>
                     /\ Extent(leaf, "y") = YDomain
                     /\ "scale" \in DOMAIN leaf.encoding.y
                            => leaf.encoding.y.scale.domain = YDomain

MarginalSharesDomainWitness ==
    /\ JointReturned
    /\ call.fn = "jointplot"
    /\ call.show_x /\ call.show_y
    /\ call.padding_scalar = Rat(1, 20)
    /\ RangeOf(call.x) > 0 /\ RangeOf(call.y) > 0
    /\ Extent(Leaves(Layout)[1], "x") = << Rat(9, 10), Rat(31, 10) >>
    /\ Extent(Leaves(Layout)[3], "y") = << Rat(37, 20), Rat(103, 20) >>
    /\ XDomain # YDomain

\* the call can reach the domain computation: there are rows and both axis
\* columns are numbers
RangesDefined == Len(data.rows) > 0 /\ Numeric(call.x) /\ Numeric(call.y)

\* C4: when every value of an axis column is the same (range 0), jointplot
\* and clean_jointplot (with a positive bandwidth_scalar) return for every
\* padding_scalar, that axis's domain is [min, min], and the other axis's
\* domain is the padded domain of its own column.
ZeroRangeDomain ==
    /\ JointCalled
    /\ RangesDefined
    /\ call.fn = "clean_jointplot" => call.bandwidth_scalar > 0
    =>  /\ RangeOf(call.x) = 0 =>
              /\ result.status = "returned"
              /\ XDomain = << R(MinOf(call.x)), R(MinOf(call.x)) >>
              /\ YDomain = Padded(call.y, call.padding_scalar)
        /\ RangeOf(call.y) = 0 =>
              /\ result.status = "returned"
              /\ YDomain = << R(MinOf(call.y)), R(MinOf(call.y)) >>
              /\ XDomain = Padded(call.x, call.padding_scalar)

ZeroRangeWitness ==
    /\ JointReturned
    /\ call.fn = "clean_jointplot"
    /\ call.bandwidth_scalar = 2
    /\ call.padding_scalar = Rat(1, 5)
    /\ RangeOf(call.x) = 0 /\ RangeOf(call.y) = 3
    /\ XDomain = << R(3), R(3) >>
    /\ YDomain[1] # YDomain[2]

\* the exception the call ended with, where it was raised, and no chart
RaisedWith(exc, places) ==
    /\ result.status = "raised"
    /\ result.exc = exc
    /\ result.at \in places
    /\ result.chart = << >>

AxisIsString == ~Numeric(call.x) \/ ~Numeric(call.y)

InvalidConfiguration ==
    \/ call.fn = "jointplot" /\ call.hist_height < 0
    \/ call.fn = "clean_jointplot" /\ call.line_height < 0
    \/ RLess(call.padding_scalar, R(0))

\* C6: a negative hist_height / line_height or a negative padding_scalar
\* ends the call with InvalidConfigurationError and no chart.
InvalidConfigurationRejected ==
    JointCalled /\ InvalidConfiguration =>
        /\ result.status = "raised"
        /\ result.exc = "InvalidConfigurationError"
        /\ result.chart = << >>

Bandwidth(leaf) == leaf.transform[1].bandwidth

BandwidthOf(leaf, c) ==
    /\ RMul(Bandwidth(leaf), R(call.bandwidth_scalar)) = R(RangeOf(c))
    /\ Bandwidth(leaf) = R(0) <=> RangeOf(c) = 0

\* C7: clean_jointplot returns for every non-zero bandwidth_scalar (given
\* rows and numeric axis columns); the top line's bandwidth is the raw x
\* range / bandwidth_scalar and the right line's the raw y range /
\* bandwidth_scalar, each 0 exactly when its range is 0.
BandwidthFromOwnRange ==
    /\ pc = "returned"
    /\ call.fn = "clean_jointplot"
    /\ RangesDefined
    /\ call.bandwidth_scalar # 0
    =>  /\ result.status = "returned"
        /\ \A i \in DOMAIN Leaves(Layout) :
              LET leaf == Leaves(Layout)[i]
              IN  /\ IsTopMarginal(leaf) => BandwidthOf(leaf, call.x)
                  /\ IsRightMarginal(leaf) => BandwidthOf(leaf, call.y)

BandwidthWitness ==
    /\ JointReturned
    /\ call.fn = "clean_jointplot"
    /\ call.show_x /\ call.show_y
    /\ call.bandwidth_scalar = 10
    /\ call.padding_scalar = Rat(1, 5)
    /\ RangeOf(call.x) = 2 /\ RangeOf(call.y) = 0
    /\ Bandwidth(Leaves(Layout)[1]) = Rat(1, 5)
    /\ Bandwidth(Leaves(Layout)[3]) = R(0)

\* an axis drawn without its domain line, grid lines, labels and ticks
AxisStripped(channel) ==
    /\ "axis" \in DOMAIN channel
    /\ channel.axis.domain = FALSE
    /\ channel.axis.grid = FALSE
    /\ channel.axis.labels = FALSE
    /\ channel.axis.tickOpacity = 0

CleanReturned == JointReturned /\ call.fn = "clean_jointplot"

NoTopLevelConfig == "config" \notin DOMAIN Layout

IsConcat(chart) == "vconcat" \in DOMAIN chart \/ "hconcat" \in DOMAIN chart

\* C8 as stated: with apply_configure_view the axis domain lines, ticks and
\* grid lines are gone from every sub-chart, the point layer included;
\* without it the chart has no top-level view configuration.
BordersStrippedEverywhere ==
    CleanReturned =>
        /\ call.apply_configure_view =>
              \A i \in DOMAIN Leaves(Layout) :
                  /\ AxisStripped(Leaves(Layout)[i].encoding.x)
                  /\ AxisStripped(Leaves(Layout)[i].encoding.y)
        /\ ~call.apply_configure_view => NoTopLevelConfig

\* C8, amended: with apply_configure_view the returned chart carries the
\* top-level view configuration strokeWidth = 0 (the border of every view is
\* not drawn), for every combination of show_x and show_y, and without it no
\* top-level configuration; the axis domain lines, grid lines, labels and
\* ticks are removed from the axes of each shown marginal whether or not the
\* flag is set, and never from the axes of the point layer.
ViewStrokeAndMarginalAxes ==
    CleanReturned =>
        /\ call.apply_configure_view =>
              /\ "config" \in DOMAIN Layout
              /\ Layout.config = [view |-> [strokeWidth |-> 0]]
        /\ ~call.apply_configure_view => NoTopLevelConfig
        /\ \A i \in DOMAIN Leaves(Layout) :
              LET leaf == Leaves(Layout)[i]
              IN  /\ IsConcat(Layout) => "config" \notin DOMAIN leaf
                  /\ IsMainPlot(leaf) =>
                        /\ "axis" \notin DOMAIN leaf.encoding.x
                        /\ "axis" \notin DOMAIN leaf.encoding.y
                  /\ ~IsMainPlot(leaf) =>
                        /\ AxisStripped(leaf.encoding.x)
                        /\ AxisStripped(leaf.encoding.y)

ViewStrokeWitness ==
    /\ CleanReturned
    /\ ~call.apply_configure_view
    /\ call.show_x /\ call.show_y
    /\ NoTopLevelConfig
    /\ AxisStripped(Leaves(Layout)[1].encoding.x)
    /\ AxisStripped(Leaves(Layout)[3].encoding.y)
    /\ "axis" \notin DOMAIN Leaves(Layout)[2].encoding.x

JointplotColorHonoured ==
    JointReturned /\ call.fn = "jointplot" =>
        LET points == MainPlot(Layout)
        IN  IF call.hue # None
              THEN /\ "color" \in DOMAIN points.encoding
                   /\ points.encoding.color = Shorthand(call.hue, "N")
            ELSE IF call.color # None
              THEN /\ "color" \in DOMAIN points.mark
                   /\ points.mark.color = call.color
            ELSE /\ "color" \notin DOMAIN points.encoding
                 /\ "color" \notin DOMAIN points.mark

(***************************************************************************)
(* Histogram bins                                                          *)
(***************************************************************************)
HistogramFns == {"histogram", "layered_histogram", "jointplot"}

\* the single charts of the result that bin a column
BinnedLeaves ==
    { i \in DOMAIN Leaves(Layout) : ~IsMainPlot(Leaves(Layout)[i]) }

\* the channel a histogram bins: y for jointplot's right histogram, else x
BinOf(leaf) ==
    IF IsRightMarginal(leaf) THEN leaf.encoding.y.bin ELSE leaf.encoding.x.bin

\* C11: whenever histogram, layered_histogram or jointplot returns, the bin
\* parameter of every histogram in the chart has maxbins equal to the
\* maxbins argument of the call (for jointplot: the top and the right one).
MaxbinsHonoured ==
    pc = "returned" /\ call.fn \in HistogramFns /\ result.status = "returned" =>
        \A i \in BinnedLeaves : BinOf(Leaves(Layout)[i]).maxbins = call.maxbins

(***************************************************************************)
(* Density sample grids                                                    *)
(***************************************************************************)
DensityFns == {"clean_jointplot", "distribution_plot", "layered_distribution_plot"}

DensityReturned ==
    pc = "returned" /\ call.fn \in DensityFns /\ result.status = "returned"

\* the single charts of the result that hold a density transform
DensityLeaves ==
    { i \in DOMAIN Leaves(Layout) : "transform" \in DOMAIN Leaves(Layout)[i] }

\* the padding fraction of the call
PadOf(args) ==
    IF args.fn = "clean_jointplot" THEN args.padding_scalar ELSE args.x_pad_scaler

\* [min - p*range, max + p*range] of column c of table t
PaddedIn(t, c, p) ==
    LET lo == SeqMin(Col(t, c))
        hi == SeqMax(Col(t, c))
    IN  << RSub(R(lo), RMul(p, R(hi - lo))), RAdd(R(hi), RMul(p, R(hi - lo))) >>

\* the steps equally spaced sample coordinates over the extent, ends included
\* (steps >= 2); every group of a grouped transform is sampled on this grid
SampleGrid(extent, steps) ==
    LET span == RSub(extent[2], extent[1])
    IN  [i \in 1..steps |-> RAdd(extent[1], RMul(span, Rat(i - 1, steps - 1)))]

StrictlyIncreasing(grid) == \A i \in 1..(Len(grid) - 1) : RLess(grid[i], grid[i + 1])

\* the number of sample points the claim names for the call
StepsNamed == IF call.fn = "clean_jointplot" THEN 200 ELSE call.steps

\* the one transform of a density chart, its grid and the padded domain
GridSpansDomain(leaf, grid) ==
    LET t   == leaf.transform[1]
        dom == PaddedIn(leaf.data, t.density, PadOf(call))
    IN  /\ Len(leaf.transform) = 1
        /\ t.steps = StepsNamed
        /\ Len(grid) = StepsNamed
        /\ grid[1] = dom[1]
        /\ grid[Len(grid)] = dom[2]

\* C12: whenever clean_jointplot, distribution_plot or
\* layered_distribution_plot returns, every density chart holds one transform
\* (shared by all groups) that requests exactly steps samples (200 in
\* clean_jointplot) over the padded domain; the grid runs from domain[0] to
\* domain[1]; it is strictly increasing when domain[0] < domain[1], and when
\* the column's range is 0 every sample coordinate equals the column's value.
DensityGridSpansDomain ==
    DensityReturned =>
        \A i \in DensityLeaves :
            LET leaf == Leaves(Layout)[i]
                t    == leaf.transform[1]
                grid == SampleGrid(t.extent, t.steps)
            IN  /\ GridSpansDomain(leaf, grid)
                /\ RLess(t.extent[1], t.extent[2]) => StrictlyIncreasing(grid)
                /\ SeqMax(Col(leaf.data, t.density)) = SeqMin(Col(leaf.data, t.density)) =>
                       \A k \in DOMAIN grid : grid[k] = R(SeqMin(Col(leaf.data, t.density)))

DensityGridWitness ==
    /\ DensityReturned
    /\ call.fn = "layered_distribution_plot"
    /\ call.steps = 5
    /\ call.x_pad_scaler = R(0)
    /\ \E i \in DensityLeaves :
          LET t == Leaves(Layout)[i].transform[1]
          IN  /\ "groupby" \in DOMAIN t
              /\ SampleGrid(t.extent, t.steps) = << R(1), Rat(3, 2), R(2), Rat(5, 2), R(3) >>

\* C12 as stated: the sample coordinates are strictly increasing in every
\* density chart returned.
DensityGridStrictlyIncreasing ==
    DensityReturned =>
        \A i \in DensityLeaves :
            LET leaf == Leaves(Layout)[i]
                t    == leaf.transform[1]
                grid == SampleGrid(t.extent, t.steps)
            IN  /\ GridSpansDomain(leaf, grid)
                /\ StrictlyIncreasing(grid)

(***************************************************************************)
(* Histogram bin counts                                                    *)
(***************************************************************************)
\* the lower edge of bin k of maxbins equal-width bins over the extent
\* (bin maxbins + 1 would start at the upper end of the extent)
BinLo(extent, maxbins, k) ==
    RAdd(extent[1], RMul(RSub(extent[2], extent[1]), Rat(k - 1, maxbins)))

\* the boundary rule: a bin holds its lower edge and not its upper edge,
\* except the last bin, which holds the upper end of the extent too
InBin(v, extent, maxbins, k) ==
    /\ ~RLess(R(v), BinLo(extent, maxbins, k))
    /\ IF k = maxbins THEN ~RLess(extent[2], R(v))
       ELSE RLess(R(v), BinLo(extent, maxbins, k + 1))

\* the count of bin k
BinCount(values, extent, maxbins, k) ==
    Cardinality({ i \in DOMAIN values : InBin(values[i], extent, maxbins, k) })

\* the counts of bins 1..k added up
RECURSIVE SumBinCounts(_, _, _, _)
SumBinCounts(values, extent, maxbins, k) ==
    IF k = 0 THEN 0
    ELSE BinCount(values, extent, maxbins, k) + SumBinCounts(values, extent, maxbins, k - 1)

\* the column a histogram of jointplot bins
BinnedColumn(leaf) ==
    IF IsRightMarginal(leaf) THEN leaf.encoding.y.shorthand[1]
    ELSE leaf.encoding.x.shorthand[1]

JointplotReturned ==
    pc = "returned" /\ call.fn = "jointplot" /\ result.status = "returned"

\* C13: whenever jointplot returns, in each of its histograms the counts of
\* the bins over the padded domain add up to the number of values of the
\* column, and every value lies in exactly one bin.
BinCountsSumToRows ==
    JointplotReturned =>
        \A i \in BinnedLeaves :
            LET leaf   == Leaves(Layout)[i]
                bin    == BinOf(leaf)
                values == Col(leaf.data, BinnedColumn(leaf))
            IN  /\ SumBinCounts(values, bin.extent, bin.maxbins, bin.maxbins) = Len(values)
                /\ \A j \in DOMAIN values :
                      Cardinality({ k \in 1..bin.maxbins :
                                      InBin(values[j], bin.extent, bin.maxbins, k) }) = 1

(***************************************************************************)
(* Grouped summaries                                                       *)
(***************************************************************************)
\* the distinct values of column c of table t
Distinct(t, c) == { t.rows[i][c] : i \in DOMAIN t.rows }

IsDensity(leaf) == "transform" \in DOMAIN leaf

\* the summaries a chart draws: a density transform computes one curve per
\* value of its groupby column, a histogram one count series per value of
\* its colour column, and one summary of the whole column otherwise
Summaries(leaf) ==
    IF IsDensity(leaf)
    THEN IF "groupby" \in DOMAIN leaf.transform[1]
         THEN Distinct(leaf.data, leaf.transform[1].groupby[1])
         ELSE { None }
    ELSE IF "color" \in DOMAIN leaf.encoding
         THEN Distinct(leaf.data, leaf.encoding.color[1])
         ELSE { None }

\* the marginal is grouped and coloured by hue
GroupedBy(leaf, hue) ==
    /\ "color" \in DOMAIN leaf.encoding
    /\ leaf.encoding.color = Shorthand(hue, "N")
    /\ IF IsDensity(leaf)
       THEN /\ "groupby" \in DOMAIN leaf.transform[1]
            /\ leaf.transform[1].groupby = <<hue>>
       ELSE leaf.encoding.x.stack = None /\ leaf.encoding.y.stack = None
    /\ Summaries(leaf) = Distinct(data, hue)

\* the marginal is one summary, with no grouping and no colour encoding
Ungrouped(leaf) ==
    /\ "color" \notin DOMAIN leaf.encoding
    /\ IsDensity(leaf) => "groupby" \notin DOMAIN leaf.transform[1]
    /\ Cardinality(Summaries(leaf)) = 1

\* C14: whenever jointplot or clean_jointplot returns, every marginal (top
\* and right alike) is grouped and coloured by hue, with one summary per
\* distinct value of the hue column (the density transform grouped by hue, the
\* histogram unstacked), when hue is given, and is one summary with no
\* grouping and no colour encoding when hue is not given; the chart of
\* layered_distribution_plot is grouped and coloured by its grouping column,
\* with one summary per distinct value of that column of its table.
OneSummaryPerGroup ==
    /\ JointReturned =>
          \A i \in DOMAIN Leaves(Layout) :
              LET leaf == Leaves(Layout)[i]
              IN  ~IsMainPlot(leaf) =>
                    IF call.hue # None THEN GroupedBy(leaf, call.hue) ELSE Ungrouped(leaf)
    /\ (pc = "returned" /\ call.fn = "layered_distribution_plot"
          /\ result.status = "returned") =>
          LET t == Layout.transform[1]
          IN  /\ Len(t.groupby) = 1
              /\ call.hue # None => t.groupby = <<call.hue>>
              /\ Layout.encoding.color = Shorthand(t.groupby[1], "N")
              /\ t.groupby[1] \in Range(Layout.data.columns) =>
                    Summaries(Layout) = Distinct(Layout.data, t.groupby[1])

OneSummaryPerGroupWitness ==
    /\ JointReturned
    /\ call.fn = "clean_jointplot"
    /\ call.hue = "g"
    /\ call.show_x /\ call.show_y
    /\ Len(Leaves(Layout)) = 3
    /\ \A i \in DOMAIN Leaves(Layout) :
          ~IsMainPlot(Leaves(Layout)[i]) => Summaries(Leaves(Layout)[i]) = {"u", "v"}

====
